---- MODULE Spec2Model ----
(***************************************************************************)
(* Cooperative ledger: members, savings, loans and payments, with the      *)
(* accrual engine (models/models.py), the loan and payment routes          *)
(* (api/services.py), the daily reminder job (dependancies/scheduler.py)   *)
(* and the rotation of refresh tokens (api/users.py).                      *)
(*                                                                         *)
(* Money is an integer number of cents (Decimal with two places).  A date  *)
(* is a record [y, m, d] of the proleptic Gregorian calendar; only the     *)
(* date part of approved_at and of utc_now() enters any computation.       *)
(* Member identity fields are never read by the accounting code and are   *)
(* left out of the rows.                                                   *)
(***************************************************************************)
EXTENDS Integers, Sequences, FiniteSets, TLC

VARIABLES
    members,        \* set of Member ids (table member)
    savings,        \* set of Savings rows [id, member_id, amount]
    loans,          \* set of Loan rows [id, member_id, amount, monthly_payment, approved_at, status]
    payments,       \* set of Payments rows [id, loan_id, principal_amount, interest_amount,
                    \*                       late_fee_amount, paid_at]
    clock,          \* position of utc_now() in ClockDates
    next_id,        \* the next primary key of each table (ids are never reused)
    edits,          \* number of corrections so far (committed PATCH and DELETE requests)
    blocklist,      \* set of TokenBlocklist rows [id, token, token_type]
    sessions,       \* the requests in flight: what each session has loaded and not yet
                    \* committed (empty where a request is served in one step)
    last            \* the request served by the last step and its outcome

vars == <<members, savings, loans, payments, clock, next_id, edits, blocklist, sessions, last>>

store == <<members, savings, loans, payments>>

----------------------------------------------------------------------------
(* Bounds of the model *)

MaxMembers == 1
MaxSavings == 1
MaxLoans == 2
MaxPayments == 2
MaxEdits == 1

(* Inputs of the requests, in cents *)
SavingsAmounts == {50000}
LoanOffers ==
    { [amount |-> 100000, monthly_payment |-> 10000],
      [amount |-> 50000,  monthly_payment |-> 10000] }
\* loan applications: the offers, one above twice the savings and one whose
\* instalment exceeds its amount
LoanRequests ==
    LoanOffers \cup
    { [amount |-> 150000, monthly_payment |-> 10000],
      [amount |-> 5000,   monthly_payment |-> 10000] }
\* the values a loan is updated to: LoanUpdate has no validator, so an amount
\* below the principal already paid is an input like any other
LoanUpdates == LoanOffers \cup {[amount |-> 5000, monthly_payment |-> 10000]}
\* cash amounts: neither CreatePayments nor PaymentUpdate bounds the amount
\* from below, so a negative one is an input like any other
CashAmounts == {-100, 200, 5000, 10000, 200000}

(* The dates at which requests arrive, in order *)
ClockDates ==
    << [y |-> 2024, m |-> 1, d |-> 31],
       [y |-> 2024, m |-> 4, d |-> 30] >>

utc_now == ClockDates[clock]

----------------------------------------------------------------------------
(* Decimal and calendar arithmetic *)

Min(a, b) == IF a <= b THEN a ELSE b

\* round(Decimal(n) / den, 0) under ROUND_HALF_EVEN, the rounding of
\* Decimal.__round__; den > 0
RoundHalfEven(n, den) ==
    LET q == n \div den
        r == n % den
    IN  IF 2 * r > den THEN q + 1
        ELSE IF 2 * r < den THEN q
        ELSE IF q % 2 = 0 THEN q ELSE q + 1

\* the quotient rounded down, which is one less for a negative dividend
FloorDiv(a, b) == a \div b

\* Decimal a // b for b > 0: the quotient truncated towards zero
TruncDiv(a, b) == IF a >= 0 THEN a \div b ELSE -((-a) \div b)

IsLeap(y) == (y % 4 = 0 /\ y % 100 # 0) \/ y % 400 = 0

DaysInMonth(y, m) ==
    IF m = 2 THEN (IF IsLeap(y) THEN 29 ELSE 28)
    ELSE IF m \in {4, 6, 9, 11} THEN 30 ELSE 31

\* date + relativedelta(months=k): calendar months, day clamped to the
\* last day of the target month
AddMonths(dt, k) ==
    LET t  == (dt.m - 1) + k
        yy == dt.y + (t \div 12)
        mm == (t % 12) + 1
    IN  [y |-> yy, m |-> mm, d |-> Min(dt.d, DaysInMonth(yy, mm))]

DateGT(a, b) ==
    \/ a.y > b.y
    \/ a.y = b.y /\ a.m > b.m
    \/ a.y = b.y /\ a.m = b.m /\ a.d > b.d

\* date.toordinal() up to a constant: the number of the day in the proleptic
\* Gregorian calendar (years >= 1)
DayNumber(dt) ==
    LET yy  == IF dt.m <= 2 THEN dt.y - 1 ELSE dt.y
        era == yy \div 400
        yoe == yy - era * 400
        mp  == IF dt.m > 2 THEN dt.m - 3 ELSE dt.m + 9
        doy == ((153 * mp + 2) \div 5) + dt.d - 1
        doe == yoe * 365 + (yoe \div 4) - (yoe \div 100) + doy
    IN  era * 146097 + doe

\* the date of a day number
DateOfDayNumber(n) ==
    LET era == n \div 146097
        doe == n - era * 146097
        yoe == (doe - (doe \div 1460) + (doe \div 36524) - (doe \div 146096)) \div 365
        doy == doe - (365 * yoe + (yoe \div 4) - (yoe \div 100))
        mp  == (5 * doy + 2) \div 153
        dd  == doy - ((153 * mp + 2) \div 5) + 1
        mm  == IF mp < 10 THEN mp + 3 ELSE mp - 9
        yy  == yoe + era * 400
    IN  [y |-> IF mm <= 2 THEN yy + 1 ELSE yy, m |-> mm, d |-> dd]

\* date + timedelta(days=n)
AddDays(dt, n) == DateOfDayNumber(DayNumber(dt) + n)

RECURSIVE SumOver(_, _)
\* sum(f(p) for p in S), f given as a function on the rows
SumOver(S, f) ==
    IF S = {} THEN 0
    ELSE LET x == CHOOSE x \in S : TRUE IN f[x] + SumOver(S \ {x}, f)

----------------------------------------------------------------------------
(* Accrual engine: the computed properties of Loan and Payments *)

total_amount(p) == p.principal_amount + p.interest_amount + p.late_fee_amount

\* Loan.payments as loaded from the rows P
PaymentsOf(P, loan) == {p \in P : p.loan_id = loan.id}

remaining_balance(P, loan) ==
    LET ps == PaymentsOf(P, loan)
    IN  loan.amount - SumOver(ps, [p \in ps |-> p.principal_amount])

\* flat interest, on the amount lent instead of the outstanding principal
current_interest_due_flat(P, loan) ==
    IF loan.status = "paid" \/ remaining_balance(P, loan) <= 0 THEN 0
    ELSE RoundHalfEven(loan.amount * 15, 1000)

current_interest_due(P, loan) ==
    LET balance == remaining_balance(P, loan)
    IN  IF loan.status = "paid" \/ balance <= 0 THEN 0
        ELSE RoundHalfEven(balance * 15, 1000)

expected_installments_paid(P, loan) ==
    IF loan.monthly_payment <= 0 THEN 0
    ELSE LET ps == PaymentsOf(P, loan)
         IN  TruncDiv(SumOver(ps, [p \in ps |-> total_amount(p)]), loan.monthly_payment)

NoDate == [y |-> 0, m |-> 0, d |-> 0]

next_due_date(P, loan) ==
    IF loan.status = "paid" THEN NoDate
    ELSE AddMonths(loan.approved_at, expected_installments_paid(P, loan) + 1)

\* a penalty on completed months only: no month counted from the day of the
\* month of the due date on
accumulated_late_fees_completed_months(P, loan, today) ==
    LET due == next_due_date(P, loan)
        months_late == (today.y - due.y) * 12 + (today.m - due.m)
    IN  IF loan.status = "paid" \/ due = NoDate THEN 0
        ELSE IF DateGT(today, due) /\ months_late > 0
        THEN RoundHalfEven(loan.monthly_payment * 3 * months_late, 100)
        ELSE 0

\* late from the due date itself, not from the day after it
accumulated_late_fees_from_due_date(P, loan, today) ==
    LET due == next_due_date(P, loan)
        base == (today.y - due.y) * 12 + (today.m - due.m)
        months_late == IF today.d >= due.d THEN base + 1 ELSE base
    IN  IF loan.status = "paid" \/ due = NoDate THEN 0
        ELSE IF ~DateGT(due, today) /\ months_late > 0
        THEN RoundHalfEven(loan.monthly_payment * 3 * months_late, 100)
        ELSE 0

accumulated_late_fees(P, loan, today) ==
    LET due == next_due_date(P, loan)
        base == (today.y - due.y) * 12 + (today.m - due.m)
        months_late == IF today.d >= due.d THEN base + 1 ELSE base
    IN  IF loan.status = "paid" \/ due = NoDate THEN 0
        ELSE IF DateGT(today, due) /\ months_late > 0
        THEN RoundHalfEven(loan.monthly_payment * 3 * months_late, 100)
        ELSE 0

\* a loan in the member profile: LoanWithPayments validated from the Loan row,
\* which evaluates the computed properties at the time of the request
LoanWithPayments(P, loan, today) ==
    [op |-> "get_member_detailed", id |-> loan.id,
     remaining_balance |-> remaining_balance(P, loan),
     current_interest_due |-> current_interest_due(P, loan),
     accumulated_late_fees |-> accumulated_late_fees(P, loan, today),
     next_due_date |-> next_due_date(P, loan)]

total_savings(S, member_id) ==
    LET ss == {s \in S : s.member_id = member_id}
    IN  SumOver(ss, [s \in ss |-> s.amount])

----------------------------------------------------------------------------
(* The durable store as the routes use it *)

HasRow(T, id) == \E r \in T : r.id = id

Row(T, id) == CHOOSE r \in T : r.id = id

\* a commit whose failure loses the loan row's change but keeps the payment rows'
session_commit_partial(commit_ok, committed, pending) ==
    IF commit_ok THEN pending
    ELSE [loans |-> committed.loans, payments |-> pending.payments]

\* session.commit() inside try, session.rollback() in the except branch:
\* the committed tables are the pending ones, or stay what they were
session_commit(commit_ok, committed, pending) ==
    IF commit_ok THEN pending ELSE committed

Tables(L, P) == [loans |-> L, payments |-> P]

Reply(t, result) == [loans |-> t.loans, payments |-> t.payments, result |-> result]

----------------------------------------------------------------------------
(* POST /payment/{loan_id} *)

register_payment_clearance(P, db_loan, today) ==
    remaining_balance(P, db_loan) + current_interest_due(P, db_loan)
        + accumulated_late_fees(P, db_loan, today)

\* the route without its overpayment guard
register_payment_guard_missing(amount, total_clearance_amount) == FALSE

register_payment_overpaid(amount, total_clearance_amount) ==
    amount > total_clearance_amount

\* the superseded two-bucket allocation: interest, then principal
register_payment_waterfall_two_bucket(amount, late_fees_due, interest_due) ==
    LET interest_paid == Min(amount, interest_due)
    IN  [late_fee_amount  |-> 0,
         interest_amount  |-> interest_paid,
         principal_amount |-> amount - interest_paid]

register_payment_waterfall(amount, late_fees_due, interest_due) ==
    LET late_fees_paid == Min(amount, late_fees_due)
        cash1          == amount - late_fees_paid
        interest_paid  == Min(cash1, interest_due)
        principal_paid == cash1 - interest_paid
    IN  [late_fee_amount  |-> late_fees_paid,
         interest_amount  |-> interest_paid,
         principal_amount |-> principal_paid]

\* a register_payment without the check of the loan's status
register_payment_paid_check_missing(L, P, today, loan_id, amount, new_id, commit_ok) ==
    IF ~HasRow(L, loan_id) THEN Reply(Tables(L, P), "not_found")
    ELSE
    LET db_loan == Row(L, loan_id)
        w == register_payment_waterfall(amount,
                 accumulated_late_fees(P, db_loan, today),
                 current_interest_due(P, db_loan))
        new_payment == [id |-> new_id, loan_id |-> loan_id,
                        principal_amount |-> w.principal_amount,
                        interest_amount  |-> w.interest_amount,
                        late_fee_amount  |-> w.late_fee_amount,
                        paid_at |-> today]
        L2 == IF remaining_balance(P, db_loan) - w.principal_amount <= 0
              THEN (L \ {db_loan}) \cup {[db_loan EXCEPT !.status = "paid"]}
              ELSE L
    IN  IF register_payment_overpaid(amount, register_payment_clearance(P, db_loan, today))
        THEN Reply(Tables(L, P), "overpayment")
        ELSE Reply(session_commit(commit_ok, Tables(L, P),
                                  Tables(L2, P \cup {new_payment})),
                   IF commit_ok THEN "ok" ELSE "failure")

register_payment(L, P, today, loan_id, amount, new_id, commit_ok) ==
    IF ~HasRow(L, loan_id) THEN Reply(Tables(L, P), "not_found")
    ELSE
    LET db_loan == Row(L, loan_id)
        total_clearance_amount == register_payment_clearance(P, db_loan, today)
        w == register_payment_waterfall(amount,
                 accumulated_late_fees(P, db_loan, today),
                 current_interest_due(P, db_loan))
        new_payment == [id |-> new_id, loan_id |-> loan_id,
                        principal_amount |-> w.principal_amount,
                        interest_amount  |-> w.interest_amount,
                        late_fee_amount  |-> w.late_fee_amount,
                        paid_at |-> today]
        L2 == IF remaining_balance(P, db_loan) - w.principal_amount <= 0
              THEN (L \ {db_loan}) \cup {[db_loan EXCEPT !.status = "paid"]}
              ELSE L
    IN  IF db_loan.status = "paid" THEN Reply(Tables(L, P), "already_paid")
        ELSE IF register_payment_overpaid(amount, total_clearance_amount)
        THEN Reply(Tables(L, P), "overpayment")
        ELSE Reply(session_commit(commit_ok, Tables(L, P),
                                  Tables(L2, P \cup {new_payment})),
                   IF commit_ok THEN "ok" ELSE "failure")

----------------------------------------------------------------------------
(* PATCH /payment/{payment_id} *)

\* the reconstruction without adding the edited payment back
pre_payment_principal_not_added_back(P, loan, db_payment) ==
    remaining_balance(P, loan)

pre_payment_principal(P, loan, db_payment) ==
    remaining_balance(P, loan) + db_payment.principal_amount

pre_payment_interest(P, loan, db_payment) ==
    RoundHalfEven(pre_payment_principal(P, loan, db_payment) * 15, 1000)

pre_payment_late_fees(P, loan, db_payment, today) ==
    accumulated_late_fees(P, loan, today) + db_payment.late_fee_amount

total_clearance_needed(P, loan, db_payment, today) ==
    pre_payment_principal(P, loan, db_payment)
        + pre_payment_interest(P, loan, db_payment)
        + pre_payment_late_fees(P, loan, db_payment, today)

\* the route without its overpayment guard
update_payment_guard_missing(new_amount, clearance_needed) == FALSE

update_payment_overpaid(new_amount, clearance_needed) ==
    new_amount > clearance_needed

\* an allocation that gives the principal the cash already spent on late fees
update_payment_waterfall_late_fee_counted_twice(new_amount, late_fees, interest) ==
    LET new_late_fee_part  == Min(new_amount, late_fees)
        new_interest_part  == Min(new_amount - new_late_fee_part, interest)
    IN  [late_fee_amount  |-> new_late_fee_part,
         interest_amount  |-> new_interest_part,
         principal_amount |-> new_amount - new_interest_part]

update_payment_waterfall(new_amount, late_fees, interest) ==
    LET new_late_fee_part  == Min(new_amount, late_fees)
        cash1              == new_amount - new_late_fee_part
        new_interest_part  == Min(cash1, interest)
        new_principal_part == cash1 - new_interest_part
    IN  [late_fee_amount  |-> new_late_fee_part,
         interest_amount  |-> new_interest_part,
         principal_amount |-> new_principal_part]

\* a re-evaluation that can close a loan but never reopen it
update_payment_status_never_reopens(P1, loan) ==
    IF remaining_balance(P1, loan) <= 0 THEN "paid" ELSE loan.status

\* step 6: the status re-derived from the payments as committed by step 5
update_payment_status(P1, loan) ==
    IF remaining_balance(P1, loan) <= 0 THEN "paid" ELSE "active"

update_payment(L, P, today, payment_id, new_amount, commit1_ok, commit2_ok) ==
    IF ~HasRow(P, payment_id) \/ ~HasRow(L, Row(P, payment_id).loan_id)
    THEN Reply(Tables(L, P), "not_found")
    ELSE
    LET db_payment == Row(P, payment_id)
        loan == Row(L, db_payment.loan_id)
        w == update_payment_waterfall(new_amount,
                 pre_payment_late_fees(P, loan, db_payment, today),
                 pre_payment_interest(P, loan, db_payment))
        P1 == (P \ {db_payment}) \cup
              {[db_payment EXCEPT !.late_fee_amount  = w.late_fee_amount,
                                  !.interest_amount  = w.interest_amount,
                                  !.principal_amount = w.principal_amount]}
        \* first session.commit(): the payment row
        t1 == session_commit(commit1_ok, Tables(L, P), Tables(L, P1))
        L2 == (L \ {loan}) \cup
              {[loan EXCEPT !.status = update_payment_status(P1, loan)]}
        \* second session.commit(): the loan status; its rollback reaches
        \* back to the first commit only
        t2 == session_commit(commit2_ok, t1, Tables(L2, P1))
    IN  IF update_payment_overpaid(new_amount,
               total_clearance_needed(P, loan, db_payment, today))
        THEN Reply(Tables(L, P), "overpayment")
        ELSE IF ~commit1_ok THEN Reply(t1, "failure")
        ELSE Reply(t2, IF commit2_ok THEN "ok" ELSE "failure")

----------------------------------------------------------------------------
(* DELETE /payment/{payment_id} *)

\* a deletion that leaves the status alone
delete_payment_status_kept(loan) == loan.status

delete_payment_status(loan) ==
    IF loan.status = "paid" THEN "active" ELSE loan.status

delete_payment(L, P, payment_id, commit_ok) ==
    IF ~HasRow(P, payment_id) THEN Reply(Tables(L, P), "not_found")
    ELSE
    LET db_payment == Row(P, payment_id)
        L2 == {IF l.id = db_payment.loan_id
               THEN [l EXCEPT !.status = delete_payment_status(l)] ELSE l : l \in L}
    IN  Reply(session_commit(commit_ok, Tables(L, P),
                             Tables(L2, P \ {db_payment})),
              IF commit_ok THEN "ok" ELSE "failure")

----------------------------------------------------------------------------
(* POST /loan/{member_id}, PATCH /loan/{loan_id}, DELETE /loan/{loan_id} *)

\* a ceiling of three times the savings
max_loan_allowed_triple(S, member_id) == total_savings(S, member_id) * 3

max_loan_allowed(S, member_id) == total_savings(S, member_id) * 2

register_loan(M, S, L, today, member_id, amount, monthly_payment, new_id, commit_ok) ==
    IF member_id \notin M THEN [loans |-> L, result |-> "not_found"]
    ELSE IF \E l \in L : l.member_id = member_id /\ l.status = "active"
    THEN [loans |-> L, result |-> "active_debt"]
    ELSE IF total_savings(S, member_id) <= 0
    THEN [loans |-> L, result |-> "no_savings"]
    ELSE IF amount > max_loan_allowed(S, member_id)
    THEN [loans |-> L, result |-> "exceeds_limit"]
    ELSE IF monthly_payment > amount
    THEN [loans |-> L, result |-> "monthly_exceeds_amount"]
    ELSE LET new_loan == [id |-> new_id, member_id |-> member_id,
                          amount |-> amount, monthly_payment |-> monthly_payment,
                          approved_at |-> today, status |-> "active"]
         IN  IF commit_ok THEN [loans |-> L \cup {new_loan}, result |-> "ok"]
             ELSE [loans |-> L, result |-> "failure"]

update_loan(L, loan_id, amount, monthly_payment, commit_ok) ==
    IF ~HasRow(L, loan_id) THEN [loans |-> L, result |-> "not_found"]
    ELSE LET db_loan == Row(L, loan_id)
              upd == [db_loan EXCEPT !.amount = amount,
                                     !.monthly_payment = monthly_payment]
         IN  IF commit_ok THEN [loans |-> (L \ {db_loan}) \cup {upd}, result |-> "ok"]
             ELSE [loans |-> L, result |-> "failure"]

\* a delete without the cascade to the payments
delete_loan_payments_kept(L, P, loan_id, commit_ok) ==
    IF ~HasRow(L, loan_id) THEN Reply(Tables(L, P), "not_found")
    ELSE Reply(session_commit(commit_ok, Tables(L, P),
                   Tables(L \ {Row(L, loan_id)}, P)),
               IF commit_ok THEN "ok" ELSE "failure")

delete_loan(L, P, loan_id, commit_ok) ==
    IF ~HasRow(L, loan_id) THEN Reply(Tables(L, P), "not_found")
    ELSE LET db_loan == Row(L, loan_id)
         IN  Reply(session_commit(commit_ok, Tables(L, P),
                       Tables(L \ {db_loan}, P \ PaymentsOf(P, db_loan))),
                   IF commit_ok THEN "ok" ELSE "failure")

----------------------------------------------------------------------------
(* DELETE /savings/{savings_id}, DELETE /member/{member_id} *)

delete_savings(S, savings_id, commit_ok) ==
    IF ~HasRow(S, savings_id) THEN [savings |-> S, result |-> "not_found"]
    ELSE IF commit_ok THEN [savings |-> S \ {Row(S, savings_id)}, result |-> "ok"]
    ELSE [savings |-> S, result |-> "failure"]

\* session.delete(db_member) at the flush: Member.savings is declared with
\* cascade_delete, so the member's savings rows are deleted with it;
\* Member.loans is declared without it, so the unit of work detaches each
\* loan of the member by setting loan.member_id to NULL, which the column
\* (a required int) rejects: the flush raises IntegrityError whenever the
\* member has a loan row
delete_member_flush_rejected(L, member_id) ==
    \E l \in L : l.member_id = member_id

delete_member(M, S, L, member_id, commit_ok) ==
    IF member_id \notin M
    THEN [members |-> M, savings |-> S, result |-> "not_found"]
    ELSE IF \E l \in L : l.member_id = member_id /\ l.status # "paid"
    THEN [members |-> M, savings |-> S, result |-> "active_loan"]
    ELSE IF total_savings(S, member_id) > 0
    THEN [members |-> M, savings |-> S, result |-> "has_savings"]
    ELSE IF delete_member_flush_rejected(L, member_id)
    THEN [members |-> M, savings |-> S, result |-> "integrity_failure"]
    ELSE IF commit_ok
    THEN [members |-> M \ {member_id},
          savings |-> {s \in S : s.member_id # member_id}, result |-> "ok"]
    ELSE [members |-> M, savings |-> S, result |-> "failure"]

----------------------------------------------------------------------------
(* GET /admin/dashboard-stats *)

\* a dashboard whose principal loaned counts the active loans only
get_dashboard_stats_active_loans_only(M, S, L, P, today) ==
    LET active_loans == {loan \in L : loan.status = "active"}
        total_principal_loaned == SumOver(active_loans, [loan \in active_loans |-> loan.amount])
        total_principal_collected == SumOver(P, [p \in P |-> p.principal_amount])
    IN  [total_members |-> Cardinality(M),
         total_savings |-> SumOver(S, [s \in S |-> s.amount]),
         total_loans_issued_count |-> Cardinality(L),
         total_principal_loaned |-> total_principal_loaned,
         total_principal_collected |-> total_principal_collected,
         total_interest_collected |-> SumOver(P, [p \in P |-> p.interest_amount]),
         outstanding_principal |-> total_principal_loaned - total_principal_collected,
         projected_late_fees |->
             SumOver(active_loans,
                     [loan \in active_loans |-> accumulated_late_fees(P, loan, today)])]

\* the sums are taken over whole tables, whatever row a payment belongs to;
\* round(x, 2) is the identity on amounts kept in cents
get_dashboard_stats(M, S, L, P, today) ==
    LET total_principal_loaned == SumOver(L, [loan \in L |-> loan.amount])
        total_principal_collected == SumOver(P, [p \in P |-> p.principal_amount])
        active_loans == {loan \in L : loan.status = "active"}
    IN  [total_members |-> Cardinality(M),
         total_savings |-> SumOver(S, [s \in S |-> s.amount]),
         total_loans_issued_count |-> Cardinality(L),
         total_principal_loaned |-> total_principal_loaned,
         total_principal_collected |-> total_principal_collected,
         total_interest_collected |-> SumOver(P, [p \in P |-> p.interest_amount]),
         outstanding_principal |-> total_principal_loaned - total_principal_collected,
         projected_late_fees |->
             SumOver(active_loans,
                     [loan \in active_loans |-> accumulated_late_fees(P, loan, today)])]

----------------------------------------------------------------------------
(* The daily job check_and_send_due_reminders *)

\* the loans of the reminder: active, with a due date no later than 3 days on
loans_due_soon(L, P, today) ==
    LET warning_window == AddDays(today, 3)
    IN  {loan \in L : /\ loan.status = "active"
                      /\ next_due_date(P, loan) # NoDate
                      /\ ~DateGT(next_due_date(P, loan), warning_window)}

\* a job that writes the reminded loans off and commits
check_and_send_due_reminders_closing_loans(L, P, today, smtp_ok) ==
    LET due == loans_due_soon(L, P, today)
    IN  [loans |-> (L \ due) \cup {[loan EXCEPT !.status = "paid"] : loan \in due},
         payments |-> P, result |-> "sent", count |-> Cardinality(due), amount_due |-> 0]

\* the session is read only and closed without a commit; send_admin_email
\* catches every exception of the SMTP exchange and logs it
check_and_send_due_reminders(L, P, today, smtp_ok) ==
    LET due == loans_due_soon(L, P, today)
        amount_due == [loan \in due |->
                         loan.monthly_payment + accumulated_late_fees(P, loan, today)]
    IN  IF due = {}
        THEN [loans |-> L, payments |-> P, result |-> "none_due",
              count |-> 0, amount_due |-> 0]
        ELSE [loans |-> L, payments |-> P,
              result |-> IF smtp_ok THEN "sent" ELSE "email_failed",
              count |-> Cardinality(due), amount_due |-> SumOver(due, amount_due)]

----------------------------------------------------------------------------
(* The requests as steps of the system *)

\* the outcomes of a session.commit(): both for a request that reaches it,
\* none to choose for a request rejected before it
CommitOutcomes(result_if_committed) ==
    IF result_if_committed = "ok" THEN BOOLEAN ELSE {TRUE}

Request(op, id, amount, monthly_payment, result) ==
    [op |-> op, id |-> id, amount |-> amount,
     monthly_payment |-> monthly_payment, result |-> result]

Init ==
    /\ members = {}
    /\ blocklist = {}
    /\ sessions = {}
    /\ savings = {}
    /\ loans = {}
    /\ payments = {}
    /\ clock = 1
    /\ next_id = [member |-> 1, savings |-> 1, loan |-> 1, payment |-> 1]
    /\ edits = 0
    /\ last = Request("none", 0, 0, 0, "ok")

\* POST /member/
RegisterMember ==
    /\ next_id.member <= MaxMembers
    /\ \E commit_ok \in BOOLEAN :
         /\ members' = IF commit_ok THEN members \cup {next_id.member} ELSE members
         /\ next_id' = IF commit_ok THEN [next_id EXCEPT !.member = @ + 1] ELSE next_id
         /\ last' = Request("register_member", next_id.member, 0, 0,
                            IF commit_ok THEN "ok" ELSE "failure")
    /\ UNCHANGED <<blocklist, sessions, savings, loans, payments, clock, edits>>

\* POST /savings/{member_id}
RecordSavings ==
    /\ next_id.savings <= MaxSavings
    /\ \E member_id \in members, amount \in SavingsAmounts, commit_ok \in BOOLEAN :
         LET new_savings == [id |-> next_id.savings,
                             member_id |-> member_id, amount |-> amount]
             result == IF member_id \notin members THEN "not_found"
                       ELSE IF commit_ok THEN "ok" ELSE "failure"
         IN  /\ savings' = IF result = "ok" THEN savings \cup {new_savings} ELSE savings
             /\ next_id' = IF result = "ok" THEN [next_id EXCEPT !.savings = @ + 1]
                           ELSE next_id
             /\ last' = Request("record_savings", member_id, amount, 0, result)
    /\ UNCHANGED <<blocklist, sessions, members, loans, payments, clock, edits>>

DeleteSavings ==
    /\ edits < MaxEdits
    /\ \E savings_id \in {s.id : s \in savings}, commit_ok \in BOOLEAN :
         \E r \in {delete_savings(savings, savings_id, commit_ok)} :
             /\ savings' = r.savings
             /\ edits' = IF r.result = "ok" THEN edits + 1 ELSE edits
             /\ last' = Request("delete_savings", savings_id, 0, 0, r.result)
    /\ UNCHANGED <<blocklist, sessions, members, loans, payments, clock, next_id>>

DeleteMember ==
    /\ \E member_id \in members :
       \E commit_ok \in CommitOutcomes(delete_member(members, savings, loans,
                                                     member_id, TRUE).result) :
         \E r \in {delete_member(members, savings, loans, member_id, commit_ok)} :
             /\ members' = r.members
             /\ savings' = r.savings
             /\ last' = Request("delete_member", member_id, 0, 0, r.result)
    /\ UNCHANGED <<blocklist, sessions, loans, payments, clock, next_id, edits>>

RegisterLoan ==
    /\ next_id.loan <= MaxLoans
    /\ \E member_id \in members, o \in LoanRequests :
       \E commit_ok \in CommitOutcomes(register_loan(members, savings, loans, utc_now,
                 member_id, o.amount, o.monthly_payment, next_id.loan, TRUE).result) :
         \E r \in {register_loan(members, savings, loans, utc_now, member_id, o.amount,
                                o.monthly_payment, next_id.loan, commit_ok)} :
             /\ loans' = r.loans
             /\ next_id' = IF r.result = "ok" THEN [next_id EXCEPT !.loan = @ + 1]
                           ELSE next_id
             /\ last' = Request("register_loan", member_id, o.amount, o.monthly_payment, r.result)
    /\ UNCHANGED <<blocklist, sessions, members, savings, payments, clock, edits>>

UpdateLoan ==
    /\ edits < MaxEdits
    /\ \E db_loan \in loans, o \in LoanUpdates, commit_ok \in BOOLEAN :
         \E r \in {update_loan(loans, db_loan.id, o.amount, o.monthly_payment, commit_ok)} :
             /\ loans' = r.loans
             /\ edits' = IF r.loans # loans THEN edits + 1 ELSE edits
             /\ last' = Request("update_loan", db_loan.id, o.amount, o.monthly_payment, r.result)
    /\ UNCHANGED <<blocklist, sessions, members, savings, payments, clock, next_id>>

DeleteLoan ==
    /\ edits < MaxEdits
    /\ \E loan_id \in {l.id : l \in loans}, commit_ok \in BOOLEAN :
         \E r \in {delete_loan(loans, payments, loan_id, commit_ok)} :
             /\ loans' = r.loans
             /\ payments' = r.payments
             /\ edits' = IF r.result = "ok" THEN edits + 1 ELSE edits
             /\ last' = Request("delete_loan", loan_id, 0, 0, r.result)
    /\ UNCHANGED <<blocklist, sessions, members, savings, clock, next_id>>

\* the cash amounts tried on a loan: the fixed ones and the exact clearance
\* amount
RegisterPaymentAmounts(loan_id) ==
    CashAmounts \cup
    (IF HasRow(loans, loan_id)
     THEN LET c == remaining_balance(payments, Row(loans, loan_id))
                   + current_interest_due(payments, Row(loans, loan_id))
                   + accumulated_late_fees(payments, Row(loans, loan_id), utc_now)
          IN  {c}
     ELSE {})

RegisterPayment ==
    /\ next_id.payment <= MaxPayments
    /\ \E loan_id \in {l.id : l \in loans} :
       \E amount \in RegisterPaymentAmounts(loan_id) :
       \E commit_ok \in CommitOutcomes(register_payment(loans, payments, utc_now,
                 loan_id, amount, next_id.payment, TRUE).result) :
         \E r \in {register_payment(loans, payments, utc_now, loan_id, amount,
                                   next_id.payment, commit_ok)} :
             /\ loans' = r.loans
             /\ payments' = r.payments
             /\ next_id' = IF r.result = "ok" THEN [next_id EXCEPT !.payment = @ + 1]
                           ELSE next_id
             /\ last' = Request("register_payment", loan_id, amount, 0, r.result)
    /\ UNCHANGED <<blocklist, sessions, members, savings, clock, edits>>

\* the amounts a payment is amended to: the fixed ones, its own current
\* total and the exact reconstructed debt
UpdatePaymentAmounts(payment_id) ==
    CashAmounts \cup
    (IF HasRow(payments, payment_id)
     THEN LET p == Row(payments, payment_id)
              l == Row(loans, p.loan_id)
              pp == remaining_balance(payments, l) + p.principal_amount
              c == pp + RoundHalfEven(pp * 15, 1000)
                      + accumulated_late_fees(payments, l, utc_now) + p.late_fee_amount
          IN  {total_amount(p), c}
     ELSE {})

UpdatePayment ==
    /\ edits < MaxEdits
    /\ \E payment_id \in {p.id : p \in payments} :
       \E new_amount \in UpdatePaymentAmounts(payment_id) :
       \E commit1_ok \in CommitOutcomes(update_payment(loans, payments, utc_now,
                 payment_id, new_amount, TRUE, TRUE).result) :
       \E commit2_ok \in CommitOutcomes(IF commit1_ok THEN "ok" ELSE "failure") :
         \E r \in {update_payment(loans, payments, utc_now, payment_id, new_amount,
                                 commit1_ok, commit2_ok)} :
             /\ loans' = r.loans
             /\ payments' = r.payments
             /\ edits' = IF r.loans # loans \/ r.payments # payments
                         THEN edits + 1 ELSE edits
             /\ last' = Request("update_payment", payment_id, new_amount, 0, r.result)
    /\ UNCHANGED <<blocklist, sessions, members, savings, clock, next_id>>

DeletePayment ==
    /\ edits < MaxEdits
    /\ \E payment_id \in {p.id : p \in payments}, commit_ok \in BOOLEAN :
         \E r \in {delete_payment(loans, payments, payment_id, commit_ok)} :
             /\ loans' = r.loans
             /\ payments' = r.payments
             /\ edits' = IF r.result = "ok" THEN edits + 1 ELSE edits
             /\ last' = Request("delete_payment", payment_id, 0, 0, r.result)
    /\ UNCHANGED <<blocklist, sessions, members, savings, clock, next_id>>

\* time passes between two requests
Tick ==
    /\ clock < Len(ClockDates)
    /\ clock' = clock + 1
    /\ last' = Request("tick", 0, 0, 0, "ok")
    /\ UNCHANGED <<blocklist, sessions, members, savings, loans, payments, next_id, edits>>

Next ==
    \/ RegisterMember
    \/ RecordSavings
    \/ DeleteSavings
    \/ DeleteMember
    \/ RegisterLoan
    \/ UpdateLoan
    \/ DeleteLoan
    \/ RegisterPayment
    \/ UpdatePayment
    \/ DeletePayment
    \/ Tick

Spec == Init /\ [][Next]_vars

----------------------------------------------------------------------------
(* The accrual engine on its own: one loan with a payment history, read in  *)
(* the member profile (GET /member/{id}) and by the daily reminder job as   *)
(* the days pass.  Here clock is the number of days since the loan's        *)
(* approved_at.                                                             *)

\* days followed after the approval
MaxElapsed == 100

\* the approval dates of the every-day family: this many days from FirstApproval
MaxApprovalDays == 731
FirstApproval == [y |-> 2023, m |-> 1, d |-> 1]

\* the age in days of the loan of test_accumulated_late_fees_calculation
ScenarioDays == 65

\* approval dates whose due dates fall on a clamped month end, a leap day
\* and a mid-month day
AccrualDates ==
    { [y |-> 2024, m |-> 1,  d |-> 31],
      [y |-> 2023, m |-> 11, d |-> 30],
      [y |-> 2023, m |-> 12, d |-> 31],
      [y |-> 2024, m |-> 3,  d |-> 15] }

\* register_loan and update_loan bound amount and monthly_payment from above
\* only: an instalment of zero or below is storable
AccrualAmounts == {50000, 8600, 8800, 5000}
AccrualInstalments == {10000, -10000}

\* the payment histories of loan 1: none, an instalment, a payment of interest
\* only, and the row register_payment stores for a cash amount of -1.00
AccrualHistories ==
    { {},
      {[id |-> 1, loan_id |-> 1, principal_amount |-> 8500, interest_amount |-> 1500,
        late_fee_amount |-> 0, paid_at |-> NoDate]},
      {[id |-> 1, loan_id |-> 1, principal_amount |-> 0, interest_amount |-> 200,
        late_fee_amount |-> 0, paid_at |-> NoDate]},
      {[id |-> 1, loan_id |-> 1, principal_amount |-> 0, interest_amount |-> 0,
        late_fee_amount |-> -100, paid_at |-> NoDate]} }

AccrualLoan(amount, monthly_payment, approved_at, status) ==
    [id |-> 1, member_id |-> 1, amount |-> amount, monthly_payment |-> monthly_payment,
     approved_at |-> approved_at, status |-> status]

\* utc_now().date() for the loan under study
Today(loan) == AddDays(loan.approved_at, clock)

AccrualInit ==
    /\ members = {1}
    /\ blocklist = {}
    /\ sessions = {}
    /\ savings = {}
    /\ next_id = [member |-> 2, savings |-> 1, loan |-> 2, payment |-> 2]
    /\ edits = 0
    /\ last = Request("none", 0, 0, 0, "ok")
    /\ \/ /\ clock = 0
          /\ \E amount \in AccrualAmounts, monthly_payment \in AccrualInstalments,
                approved_at \in AccrualDates, status \in {"active", "paid"} :
                loans = {AccrualLoan(amount, monthly_payment, approved_at, status)}
          /\ payments \in AccrualHistories
       \/ /\ clock = ScenarioDays
          /\ \E k \in 0 .. (MaxApprovalDays - 1), monthly_payment \in {100000, 10001} :
                loans = {AccrualLoan(1000000, monthly_payment,
                                     AddDays(FirstApproval, k), "active")}
          /\ payments = {}

\* a day passes
AdvanceDay ==
    /\ clock < MaxElapsed
    /\ clock' = clock + 1
    /\ last' = Request("tick", 0, 0, 0, "ok")
    /\ UNCHANGED <<blocklist, sessions, members, savings, loans, payments, next_id, edits>>

\* GET /member/{id}
ReadLoan ==
    /\ \E loan \in loans : last' = LoanWithPayments(payments, loan, Today(loan))
    /\ UNCHANGED <<blocklist, sessions, members, savings, loans, payments, clock, next_id, edits>>

\* the cron job of 08:00; the SMTP exchange is tried only when a loan is due
CheckAndSendDueReminders ==
    /\ \E loan \in loans, smtp_ok \in BOOLEAN :
         \E r \in {check_and_send_due_reminders(loans, payments, Today(loan), smtp_ok)} :
             /\ smtp_ok \/ r.result # "none_due"
             /\ loans' = r.loans
             /\ payments' = r.payments
             /\ last' = Request("check_and_send_due_reminders", r.count, r.amount_due,
                                0, r.result)
    /\ UNCHANGED <<blocklist, sessions, members, savings, clock, next_id, edits>>

AccrualNext == AdvanceDay \/ ReadLoan

AccrualSpec == AccrualInit /\ [][AccrualNext]_vars

\* the job on the loans of the first family, from the day of the approval on
ReminderInit == AccrualInit /\ clock = 0

ReminderNext == AdvanceDay \/ CheckAndSendDueReminders

ReminderSpec == ReminderInit /\ [][ReminderNext]_vars

----------------------------------------------------------------------------
(* POST /payment/{loan_id} served by several workers.  register_payment is  *)
(* a plain def, which the framework runs in a thread pool, each request     *)
(* with a session of its own (get_session): a request loads the loan and    *)
(* its payments, and commits later, with nothing that locks or re-reads     *)
(* the loan in between.                                                     *)

\* requests in flight at once
MaxRequests == 2

\* payments committed in a run of the workers
MaxRacePayments == 2

\* the SELECT of the loan with selectinload(Loan.payments): the rows the
\* session holds from then on
register_payment_load(sid, L, P, loan_id, amount) ==
    [sid |-> sid, op |-> "register_payment", loan_id |-> loan_id, amount |-> amount,
     loans |-> L, payments |-> P]

\* session.commit() of a request that loaded s.loans and s.payments: the flush
\* INSERTs the new payment and UPDATEs the status column of the loan if the
\* request changed it, on the tables as they are now; r is the outcome of the
\* request on what it loaded
register_payment_flush(L, P, s, r) ==
    LET loaded  == Row(s.loans, s.loan_id)
        decided == Row(r.loans, s.loan_id)
    IN  [loans |-> IF decided.status # loaded.status
                   THEN {IF l.id = s.loan_id THEN [l EXCEPT !.status = decided.status]
                         ELSE l : l \in L}
                   ELSE L,
         payments |-> P \cup (r.payments \ s.payments)]

\* one member with savings and a fresh loan, on either date
RaceInit ==
    /\ members = {1}
    /\ savings = {[id |-> 1, member_id |-> 1, amount |-> 50000]}
    /\ \E o \in LoanOffers :
         loans = {[id |-> 1, member_id |-> 1, amount |-> o.amount,
                   monthly_payment |-> o.monthly_payment,
                   approved_at |-> ClockDates[1], status |-> "active"]}
    /\ payments = {}
    /\ clock \in 1 .. Len(ClockDates)
    /\ next_id = [member |-> 2, savings |-> 2, loan |-> 2, payment |-> 1]
    /\ edits = 0
    /\ blocklist = {}
    /\ sessions = {}
    /\ last = Request("none", 0, 0, 0, "ok")

\* a worker takes a request and loads the loan (services.py 671-674)
LoadLoanForPayment ==
    /\ Cardinality(sessions) < MaxRequests
    /\ (next_id.payment - 1) + Cardinality(sessions) < MaxRacePayments
    /\ \E sid \in (1 .. MaxRequests) \ {s.sid : s \in sessions} :
       \E loan_id \in {l.id : l \in loans} :
       \E amount \in RegisterPaymentAmounts(loan_id) :
         /\ sessions' = sessions \cup
               {register_payment_load(sid, loans, payments, loan_id, amount)}
         /\ last' = Request("register_payment", loan_id, amount, 0, "loaded")
    /\ UNCHANGED <<members, savings, loans, payments, clock, next_id, edits, blocklist>>

\* the worker runs the rest of the handler on what it loaded and commits
\* (services.py 676-736)
CommitPayment ==
    /\ \E s \in sessions :
       \E commit_ok \in CommitOutcomes(register_payment(s.loans, s.payments, utc_now,
                 s.loan_id, s.amount, next_id.payment, TRUE).result) :
         \E r \in {register_payment(s.loans, s.payments, utc_now, s.loan_id, s.amount,
                                   next_id.payment, commit_ok)} :
         \E t \in {IF r.result = "ok"
                   THEN register_payment_flush(loans, payments, s, r)
                   ELSE Tables(loans, payments)} :
             /\ loans' = t.loans
             /\ payments' = t.payments
             /\ next_id' = IF r.result = "ok" THEN [next_id EXCEPT !.payment = @ + 1]
                           ELSE next_id
             /\ sessions' = sessions \ {s}
             /\ last' = Request("register_payment", s.loan_id, s.amount, 0, r.result)
    /\ UNCHANGED <<members, savings, clock, edits, blocklist>>

RaceNext == LoadLoanForPayment \/ CommitPayment

RaceSpec == RaceInit /\ [][RaceNext]_vars

----------------------------------------------------------------------------
(* POST /refresh served by several workers.  A refresh token is a signed    *)
(* JWT: the server keeps no record of the tokens it issued, only of the     *)
(* blocked ones.  Tokens 1 .. MaxTokens are valid refresh tokens, 0 is a    *)
(* valid access token and -1 a string that does not decode.                 *)

\* valid refresh tokens in circulation
MaxTokens == 2

\* rows of the blocklist
MaxBlocklist == 4

RequestTokens == (-1) .. MaxTokens

\* jwt.decode: the payload, or InvalidTokenError
jwt_decode(token) ==
    IF token \in 1 .. MaxTokens THEN [sub |-> 1, type |-> "refresh"]
    ELSE IF token = 0 THEN [sub |-> 1, type |-> "access"]
    ELSE [sub |-> 0, type |-> "InvalidTokenError"]

\* select(TokenBlocklist).where(TokenBlocklist.token == token).first()
is_blocked(B, token) == \E b \in B : b.token = token

\* the first half of refresh_access_token: the look-up in the blocklist and
\* the decoding of the token
refresh_access_token_check(B, token) ==
    IF is_blocked(B, token) THEN "unauthorized"
    ELSE IF jwt_decode(token).type # "refresh" THEN "unauthorized"
    ELSE "pending"

\* the second half: the row blocking the old token is added and committed;
\* the column token is indexed, not unique, so the INSERT never conflicts
refresh_access_token_rotate(B, token, commit_ok) ==
    LET old_refresh_block == [id |-> Cardinality(B) + 1, token |-> token,
                              token_type |-> "refresh"]
    IN  IF commit_ok THEN [blocklist |-> B \cup {old_refresh_block}, result |-> "ok"]
        ELSE [blocklist |-> B, result |-> "failure"]

RefreshInit ==
    /\ members = {}
    /\ savings = {}
    /\ loans = {}
    /\ payments = {}
    /\ clock = 1
    /\ next_id = [member |-> 1, savings |-> 1, loan |-> 1, payment |-> 1]
    /\ edits = 0
    /\ blocklist = {}
    /\ sessions = {}
    /\ last = Request("none", 0, 0, 0, "ok")

\* a worker takes a /refresh request up to the decoding of its token
\* (users.py 135-151)
CheckRefreshToken ==
    /\ Cardinality(sessions) < MaxRequests
    /\ Cardinality(blocklist) + Cardinality(sessions) < MaxBlocklist
    /\ \E token \in RequestTokens :
         LET result == refresh_access_token_check(blocklist, token)
             sid == CHOOSE x \in (1 .. MaxRequests) \ {s.sid : s \in sessions} : TRUE
         IN  /\ sessions' = IF result = "pending"
                            THEN sessions \cup {[sid |-> sid, op |-> "refresh",
                                                 token |-> token]}
                            ELSE sessions
             /\ last' = Request("refresh", token, 0, 0, result)
    /\ UNCHANGED <<members, savings, loans, payments, clock, next_id, edits, blocklist>>

\* the worker blocks the old token, commits and answers with the new pair
\* (users.py 153-170)
RotateRefreshToken ==
    /\ \E s \in sessions, commit_ok \in BOOLEAN :
         \E r \in {refresh_access_token_rotate(blocklist, s.token, commit_ok)} :
             /\ blocklist' = r.blocklist
             /\ sessions' = sessions \ {s}
             /\ last' = Request("refresh", s.token, 0, 0, r.result)
    /\ UNCHANGED <<members, savings, loans, payments, clock, next_id, edits>>

RefreshNext == CheckRefreshToken \/ RotateRefreshToken

RefreshSpec == RefreshInit /\ [][RefreshNext]_vars

----------------------------------------------------------------------------
(* Properties *)

PaymentOps == {"register_payment", "update_payment", "delete_payment"}

\* r is n / den rounded to the nearest integer, ties to the even one
IsRoundedHalfEven(r, n, den) ==
    LET twice == 2 * (n - r * den)
    IN  \/ -den < twice /\ twice < den
        \/ (twice = den \/ twice = -den) /\ r % 2 = 0

StatusMatchesBalance ==
    \A l \in loans : (l.status = "paid") <=> (remaining_balance(payments, l) <= 0)

\* C1: a completed register_payment, update_payment or delete_payment leaves
\* every loan with status = "paid" exactly when its remaining balance is <= 0,
\* given that this held before the request.
C1_StatusIffBalanceZero ==
    [][ (last'.op \in PaymentOps /\ last'.result = "ok" /\ StatusMatchesBalance)
            => StatusMatchesBalance' ]_vars

\* C2: the principal paid on a loan never exceeds the loan's amount: the
\* remaining balance is never negative.
C2_BalanceNeverNegative ==
    \A l \in loans : remaining_balance(payments, l) >= 0

\* C3: an accepted register_payment of cash c on an active loan stores one new
\* payment with late fee min(c, late fees due), interest min(rest, interest
\* due) and the remainder as principal, the dues being those before the
\* payment; 100.00 as first payment of a fresh 1000.00 loan gives 15.00 of
\* interest and 85.00 of principal.
C3_RegisterWaterfall ==
    [][ (last'.op = "register_payment" /\ last'.result = "ok") =>
        LET l        == Row(loans, last'.id)
            c        == last'.amount
            late_due == accumulated_late_fees(payments, l, utc_now)
            int_due  == current_interest_due(payments, l)
        IN  /\ l.status = "active"
            /\ \E q \in payments' :
                 /\ q \notin payments
                 /\ payments' = payments \cup {q}
                 /\ q.loan_id = l.id
                 /\ q.late_fee_amount = Min(c, late_due)
                 /\ q.interest_amount = Min(c - q.late_fee_amount, int_due)
                 /\ q.principal_amount = c - q.late_fee_amount - q.interest_amount
                 /\ (l.amount = 100000 /\ PaymentsOf(payments, l) = {}
                        /\ late_due = 0 /\ c = 10000)
                      => (q.interest_amount = 1500 /\ q.principal_amount = 8500)
      ]_vars

C3_Witness ==
    /\ last.op = "register_payment" /\ last.result = "ok" /\ last.amount = 10000
    /\ \E l \in loans :
         /\ l.id = last.id /\ l.amount = 100000
         /\ \E q \in payments :
              /\ PaymentsOf(payments, l) = {q}
              /\ q.late_fee_amount = 0
              /\ q.interest_amount = 1500
              /\ q.principal_amount = 8500

\* the cash a register_payment must not exceed, from the loan as stored
ClearanceOf(l) ==
    remaining_balance(payments, l) + current_interest_due(payments, l)
        + accumulated_late_fees(payments, l, utc_now)

\* C4 (as stated): register_payment answers any cash amount above remaining
\* balance + interest due + late fees of the loan with the overpayment error,
\* adding no payment and leaving the status alone.
C4_OverpaymentRejectedAnyLoan ==
    [][ (last'.op = "register_payment" /\ HasRow(loans, last'.id)
            /\ last'.amount > ClearanceOf(Row(loans, last'.id)))
        => (last'.result = "overpayment" /\ payments' = payments /\ loans' = loans)
      ]_vars

\* C4 (amended): on a loan whose status is not "paid", register_payment
\* answers any cash amount above remaining balance + interest due + late fees
\* with the overpayment error, adding no payment and leaving the status alone;
\* on a paid loan the request is rejected as already paid, also unchanged.
C4_OverpaymentRejected ==
    [][ (last'.op = "register_payment" /\ HasRow(loans, last'.id)
            /\ last'.amount > ClearanceOf(Row(loans, last'.id)))
        => /\ payments' = payments
           /\ loans' = loans
           /\ last'.result = IF Row(loans, last'.id).status = "paid"
                             THEN "already_paid" ELSE "overpayment"
      ]_vars

C4_Witness ==
    /\ last.op = "register_payment" /\ last.result = "overpayment"
    /\ \E l \in loans : l.id = last.id /\ l.status = "active"
                          /\ last.amount > ClearanceOf(l)

\* the debt update_payment reconstructs for payment p of loan l, from the rows
\* as stored
PrePrincipalOf(l, p) == remaining_balance(payments, l) + p.principal_amount

PreLateFeesOf(l, p) ==
    accumulated_late_fees(payments, l, utc_now) + p.late_fee_amount

\* C5: an update_payment to amount a that gets its payment row committed
\* overwrites the three components with the waterfall of a against
\* pre_late_fee = late fees now due + the old late_fee_amount and
\* pre_interest = 1.5% of (remaining balance + old principal_amount) rounded
\* half-even to the cent, whatever the old interest_amount was; a payment of
\* 50.00 on a loan of 500.00 amended to 100.00 gets 7.50 and 92.50.
C5_UpdateWaterfall ==
    [][ (last'.op = "update_payment"
            /\ (last'.result = "ok" \/ payments' # payments)) =>
        LET p  == Row(payments, last'.id)
            l  == Row(loans, p.loan_id)
            a  == last'.amount
            pre_late == PreLateFeesOf(l, p)
            q  == Row(payments', last'.id)
        IN  /\ payments' \ {q} = payments \ {p}
            /\ q.id = p.id /\ q.loan_id = p.loan_id /\ q.paid_at = p.paid_at
            /\ q.late_fee_amount = Min(a, pre_late)
            /\ \E pre_interest \in {(PrePrincipalOf(l, p) * 15) \div 1000,
                                     ((PrePrincipalOf(l, p) * 15) \div 1000) + 1} :
                 /\ IsRoundedHalfEven(pre_interest, PrePrincipalOf(l, p) * 15, 1000)
                 /\ q.interest_amount = Min(a - q.late_fee_amount, pre_interest)
            /\ q.principal_amount = a - q.late_fee_amount - q.interest_amount
            /\ (l.amount = 50000 /\ PaymentsOf(payments, l) = {p} /\ pre_late = 0
                    /\ total_amount(p) = 5000 /\ a = 10000)
                 => (q.interest_amount = 750 /\ q.principal_amount = 9250)
      ]_vars

C5_Witness ==
    /\ last.op = "update_payment" /\ last.result = "ok" /\ last.amount = 10000
    /\ \E l \in loans, q \in payments :
         /\ q.id = last.id /\ l.amount = 50000
         /\ PaymentsOf(payments, l) = {q}
         /\ q.late_fee_amount = 0 /\ q.interest_amount = 750
         /\ q.principal_amount = 9250

\* C6: update_payment answers any new amount above pre_principal +
\* pre_interest + pre_late_fee with the overpayment error and leaves the
\* payment's components and the loan's status as they were.
C6_UpdateOverpaymentRejected ==
    [][ (last'.op = "update_payment" /\ HasRow(payments, last'.id)) =>
        LET p == Row(payments, last'.id)
            l == Row(loans, p.loan_id)
            needed == PrePrincipalOf(l, p)
                        + RoundHalfEven(PrePrincipalOf(l, p) * 15, 1000)
                        + PreLateFeesOf(l, p)
        IN  last'.amount > needed
              => (last'.result = "overpayment" /\ payments' = payments /\ loans' = loans)
      ]_vars

C6_Witness ==
    /\ last.op = "update_payment" /\ last.result = "overpayment"
    /\ \E p \in payments : p.id = last.id /\ last.amount > total_amount(p)

\* the components register_payment would store for cash a on loan l when the
\* payments before p are the history and the date is that of p
AsRegisteredThen(l, p, a) ==
    LET before   == {q \in payments : q.loan_id = l.id /\ q.id < p.id}
        then     == [l EXCEPT !.status = "active"]
        late_due == accumulated_late_fees(before, then, p.paid_at)
        int_due  == current_interest_due(before, then)
        late     == Min(a, late_due)
        interest == Min(a - late, int_due)
    IN  [late_fee_amount |-> late, interest_amount |-> interest,
         principal_amount |-> a - late - interest]

\* C7: amending a payment of an uncorrected history, on the day it was paid,
\* to amount a gives it the components register_payment would have stored had
\* a been paid in its place.
C7_AmendEqualsReplay ==
    [][ (last'.op = "update_payment" /\ last'.result = "ok" /\ edits = 0
            /\ Row(payments, last'.id).paid_at = utc_now) =>
        LET p == Row(payments, last'.id)
            l == Row(loans, p.loan_id)
            w == AsRegisteredThen(l, p, last'.amount)
            q == Row(payments', last'.id)
        IN  /\ q.late_fee_amount = w.late_fee_amount
            /\ q.interest_amount = w.interest_amount
            /\ q.principal_amount = w.principal_amount
      ]_vars

\* C8: update_payment with the payment's own current total_amount leaves its
\* three components unchanged.
C8_AmendToSameAmount ==
    [][ (last'.op = "update_payment" /\ last'.result = "ok"
            /\ last'.amount = total_amount(Row(payments, last'.id)))
        => Row(payments', last'.id) = Row(payments, last'.id)
      ]_vars

\* C9: an update_payment that fails leaves the store as it was: the
\* overwritten components are rolled back when saving the status fails.
C9_UpdateAtomic ==
    [][ (last'.op = "update_payment" /\ last'.result = "failure")
        => (payments' = payments /\ loans' = loans) ]_vars

\* C10: register_payment commits the new row together with the flip to
\* "paid", delete_payment the reversion to "active" together with the row's
\* removal; a request that does not succeed leaves loans and payments as they
\* were, so a failed commit (the generic failure) leaves no part of either.
C10_PaymentCommitAtomic ==
    [][ /\ (last'.op = "register_payment" /\ last'.result # "ok")
             => (payments' = payments /\ loans' = loans)
        /\ (last'.op = "register_payment" /\ last'.result = "ok")
             => LET l == Row(loans, last'.id)
                IN  /\ \E q \in payments' : q \notin payments
                                              /\ payments' = payments \cup {q}
                    /\ loans' = (loans \ {l}) \cup
                         {[l EXCEPT !.status =
                              IF remaining_balance(payments', l) <= 0
                              THEN "paid" ELSE "active"]}
        /\ (last'.op = "delete_payment" /\ last'.result # "ok")
             => (payments' = payments /\ loans' = loans)
        /\ (last'.op = "delete_payment" /\ last'.result = "ok")
             => LET p == Row(payments, last'.id)
                    l == Row(loans, p.loan_id)
                IN  /\ payments' = payments \ {p}
                    /\ loans' = (loans \ {l}) \cup {[l EXCEPT !.status = "active"]}
      ]_vars

\* a commit failed on the payment that would have cleared the loan
C10_Witness ==
    /\ last.op = "register_payment" /\ last.result = "failure"
    /\ \E l \in loans : /\ l.id = last.id /\ l.status = "active"
                        /\ last.amount = ClearanceOf(l)
                        /\ remaining_balance(payments, l) > 0

ActiveLoansOf(member_id) ==
    {l \in loans : l.member_id = member_id /\ l.status = "active"}

\* C11: in every reachable state each member has at most one loan with
\* status "active".
C11_AtMostOneActiveLoan ==
    \A m \in members : Cardinality(ActiveLoansOf(m)) <= 1

\* C12: after a successful update_payment the loan of the amended payment has
\* status "paid" if the remaining balance computed from the amended payments
\* is <= 0 and "active" otherwise, whatever its status was before; every
\* other loan is left alone.
C12_UpdateRederivesStatus ==
    [][ (last'.op = "update_payment" /\ last'.result = "ok") =>
        LET p == Row(payments, last'.id)
            l == Row(loans, p.loan_id)
        IN  loans' = (loans \ {l}) \cup
                {[l EXCEPT !.status = IF remaining_balance(payments', l) <= 0
                                      THEN "paid" ELSE "active"]}
      ]_vars

\* an amendment reopened a loan: the member's later loan could only be
\* granted while the earlier one was paid, and the amendment is the first
\* correction since
C12_Witness ==
    /\ last.op = "update_payment" /\ last.result = "ok" /\ edits = 1
    /\ \E l1, l2 \in loans, p \in payments :
         /\ l1.member_id = l2.member_id /\ l1.id < l2.id
         /\ p.id = last.id /\ p.loan_id = l1.id
         /\ l1.status = "active" /\ remaining_balance(payments, l1) > 0

\* C13: a successful delete_payment leaves the payment's loan with status
\* "active" whether it was "paid" or "active" before, even when the payments
\* that remain still cover the whole principal.
C13_DeleteRevertsToActive ==
    [][ (last'.op = "delete_payment" /\ last'.result = "ok") =>
        LET p == Row(payments, last'.id)
            l == Row(loans, p.loan_id)
        IN  /\ l.status \in {"paid", "active"}
            /\ Row(loans', l.id).status = "active"
      ]_vars

\* a payment was deleted and the loan is active with nothing left to pay
C13_Witness ==
    /\ last.op = "delete_payment" /\ last.result = "ok"
    /\ \E l \in loans : /\ l.status = "active"
                        /\ PaymentsOf(payments, l) # {}
                        /\ remaining_balance(payments, l) <= 0

\* what register_loan requires of member m for a loan of the given terms
LoanAllowed(m, amount, monthly_payment) ==
    /\ m \in members
    /\ \A l \in loans : l.member_id = m => l.status = "paid"
    /\ total_savings(savings, m) > 0
    /\ amount <= 2 * total_savings(savings, m)
    /\ monthly_payment <= amount

\* C14: register_loan stores a new loan, with status "active", only when the
\* member has no loan whose status is not "paid", total savings > 0, amount
\* <= 2 x total savings and monthly_payment <= amount; a request that does
\* not satisfy all of it is rejected, and a rejected request stores no loan.
C14_RegisterLoanGuards ==
    [][ last'.op = "register_loan" =>
        LET allowed == LoanAllowed(last'.id, last'.amount, last'.monthly_payment)
        IN  /\ (~allowed) => last'.result \notin {"ok", "failure"}
            /\ allowed => last'.result \in {"ok", "failure"}
            /\ last'.result # "ok" => loans' = loans
            /\ last'.result = "ok" =>
                  \E n \in loans' :
                    /\ n \notin loans
                    /\ loans' = loans \cup {n}
                    /\ n.member_id = last'.id
                    /\ n.amount = last'.amount
                    /\ n.monthly_payment = last'.monthly_payment
                    /\ n.status = "active"
      ]_vars

\* a second loan was granted to a member whose earlier loan is paid
C14_Witness ==
    /\ last.op = "register_loan" /\ last.result = "ok"
    /\ \E l1, l2 \in loans :
         /\ l1.member_id = last.id /\ l2.member_id = last.id
         /\ l1.id < l2.id /\ l1.status = "paid" /\ l2.status = "active"
         /\ l2.amount = 2 * total_savings(savings, last.id)

\* each rejection of register_loan
C14_RejectedForDebt == last.op = "register_loan" /\ last.result = "active_debt"
C14_RejectedForSavings == last.op = "register_loan" /\ last.result = "no_savings"
C14_RejectedForLimit == last.op = "register_loan" /\ last.result = "exceeds_limit"
C14_RejectedForInstalment ==
    last.op = "register_loan" /\ last.result = "monthly_exceeds_amount"

HasUnpaidLoan(m) == \E l \in loans : l.member_id = m /\ l.status # "paid"

\* C15: delete_member fails with the loan error whenever the member owns a
\* loan whose status is not "paid", whatever the savings; fails with the
\* savings error when there is no such loan and total savings > 0; and with
\* no unpaid loan and no savings it removes the member, short of a failure of
\* the database itself; every failed deletion leaves the store unchanged.
C15_DeleteMemberGuards ==
    [][ (last'.op = "delete_member" /\ last'.id \in members) =>
        LET m == last'.id
        IN  /\ HasUnpaidLoan(m) => last'.result = "active_loan"
            /\ (~HasUnpaidLoan(m) /\ total_savings(savings, m) > 0)
                  => last'.result = "has_savings"
            /\ (~HasUnpaidLoan(m) /\ total_savings(savings, m) <= 0)
                  => last'.result \in {"ok", "failure"}
            /\ last'.result = "ok"
                  => (m \notin members' /\ \A s \in savings' : s.member_id # m)
            /\ last'.result # "ok" => store' = store
      ]_vars

\* the same with the last case narrowed to a member that has no loan row
C15_DeleteMemberWithoutLoans ==
    [][ (last'.op = "delete_member" /\ last'.id \in members) =>
        LET m == last'.id
        IN  /\ HasUnpaidLoan(m) => last'.result = "active_loan"
            /\ (~HasUnpaidLoan(m) /\ total_savings(savings, m) > 0)
                  => last'.result = "has_savings"
            /\ (total_savings(savings, m) <= 0 /\ \A l \in loans : l.member_id # m)
                  => last'.result \in {"ok", "failure"}
            /\ last'.result = "ok"
                  => (m \notin members' /\ \A s \in savings' : s.member_id # m)
            /\ last'.result # "ok" => store' = store
      ]_vars

C17_ComponentsNonNegative ==
    \A p \in payments : /\ p.principal_amount >= 0
                         /\ p.interest_amount >= 0
                         /\ p.late_fee_amount >= 0

\* C18: current_interest_due is 0 when the loan is paid or its remaining
\* balance is <= 0, and otherwise 1.5% of the remaining balance, that is of
\* the amount less the principal paid, rounded to the cent (ties to even).
C18_InterestOnOutstandingPrincipal ==
    \A l \in loans :
      LET ps       == {p \in payments : p.loan_id = l.id}
          balance  == l.amount - SumOver(ps, [p \in ps |-> p.principal_amount])
          interest == current_interest_due(payments, l)
      IN  /\ (l.status = "paid" \/ balance <= 0) => interest = 0
          /\ (l.status # "paid" /\ balance > 0)
                => IsRoundedHalfEven(interest, balance * 15, 1000)
          /\ (last.op = "get_member_detailed" /\ last.id = l.id)
                => last.current_interest_due = interest

\* the profile shows 0.02 of interest on a balance of 1.00 after a payment
\* with interest and principal in it: the tie 0.015 went to the even cent
C18_Witness ==
    /\ last.op = "get_member_detailed"
    /\ last.remaining_balance = 100 /\ last.current_interest_due = 2
    /\ \E p \in payments : p.interest_amount > 0 /\ p.principal_amount > 0

\* C19: for an unpaid loan with a fixed payment history the late fees do not
\* decrease from one day to the next.
C19_LateFeesNonDecreasing ==
    [][ clock' = clock + 1 =>
        \A l \in loans :
          l.status # "paid" =>
            accumulated_late_fees(payments, l, AddDays(l.approved_at, clock))
              <= accumulated_late_fees(payments, l, AddDays(l.approved_at, clock'))
      ]_vars

\* the same for the loans whose instalment is not negative
C19_LateFeesNonDecreasingForInstalmentsFromZero ==
    [][ clock' = clock + 1 =>
        \A l \in loans :
          (l.status # "paid" /\ l.monthly_payment >= 0) =>
            accumulated_late_fees(payments, l, AddDays(l.approved_at, clock))
              <= accumulated_late_fees(payments, l, AddDays(l.approved_at, clock'))
      ]_vars

C21_LateOnDueDate ==
    \A l \in loans :
      (l.status = "active" /\ Today(l) = next_due_date(payments, l)) =>
        accumulated_late_fees(payments, l, Today(l)) > 0

\* C21, as the code has it: on the day of its next_due_date an active loan
\* owes no late fee yet; the first month, 3% of the monthly payment, is
\* charged from the day after, and the profile shows these amounts.
C21_NotLateOnDueDate ==
    \A l \in loans :
      l.status = "active" =>
        LET due == next_due_date(payments, l)
            fee == accumulated_late_fees(payments, l, Today(l))
        IN  /\ Today(l) = due => fee = 0
            /\ Today(l) = AddDays(due, 1)
                 => IsRoundedHalfEven(fee, 3 * l.monthly_payment, 100)
            /\ (last.op = "get_member_detailed" /\ last.id = l.id)
                 => last.accumulated_late_fees = fee

\* the profile read on the due date of a loan with a positive instalment
C21_Witness ==
    /\ last.op = "get_member_detailed"
    /\ last.accumulated_late_fees = 0
    /\ \E l \in loans : /\ l.id = last.id /\ l.status = "active"
                        /\ l.monthly_payment > 0
                        /\ last.next_due_date = Today(l)

\* the date due is the day of start, n calendar months on, or the last day
\* of that month where the month has no such day
IsMonthsAfter(due, start, n) ==
    /\ due.m \in 1 .. 12
    /\ due.y * 12 + (due.m - 1) = start.y * 12 + (start.m - 1) + n
    /\ \/ due.d = start.d /\ start.d <= DaysInMonth(due.y, due.m)
       \/ due.d = DaysInMonth(due.y, due.m) /\ start.d > due.d

\* the sum of total_amount over the payments of loan l
TotalPaid(l) ==
    LET ps == {p \in payments : p.loan_id = l.id}
    IN  SumOver(ps, [p \in ps |-> p.principal_amount + p.interest_amount
                                    + p.late_fee_amount])

C23_UpdateLoanRederivesStatus ==
    [][ (last'.op = "update_loan" /\ last'.result = "ok")
          => \A l \in loans' :
               (l.id = last'.id /\ l \notin loans /\ PaymentsOf(payments', l) # {})
                 => (l.status = "paid" <=> remaining_balance(payments', l) <= 0)
      ]_vars

\* C24: the daily reminder job leaves every member, savings, loan (status
\* included) and payment row unchanged, whether or not a loan is due within
\* 3 days and whether or not the e-mail could be sent.
C24_ReminderJobReadsOnly ==
    [][ last'.op = "check_and_send_due_reminders" => store' = store ]_vars

\* the job found a loan with payments due and the e-mail failed
C24_Witness ==
    /\ last.op = "check_and_send_due_reminders"
    /\ last.result = "email_failed" /\ last.id >= 1
    /\ \E l \in loans : l.status = "active" /\ PaymentsOf(payments, l) # {}

\* the job found no loan due while an active loan exists
C24_NothingDue ==
    /\ last.op = "check_and_send_due_reminders" /\ last.result = "none_due"
    /\ \E l \in loans : l.status = "active"

\* C25: delete_loan removes the loan with all of its payments whatever its
\* status and remaining balance: unless the commit fails the request
\* succeeds, afterwards no payment row references the deleted loan, and no
\* other loan or payment is changed.
C25_DeleteLoanCascades ==
    [][ last'.op = "delete_loan"
          => /\ \A l \in loans : l.id = last'.id => last'.result \in {"ok", "failure"}
             /\ last'.result = "ok"
                  => /\ loans' = {l \in loans : l.id # last'.id}
                     /\ payments' = {p \in payments : p.loan_id # last'.id}
                     /\ \A p \in payments' : p.loan_id # last'.id
             /\ last'.result # "ok" => (loans' = loans /\ payments' = payments)
      ]_vars

\* one of a member's two loans was deleted with its payment; the other loan
\* and its payment are still there
C25_Witness ==
    /\ last.op = "delete_loan" /\ last.result = "ok"
    /\ next_id.payment = 3
    /\ Cardinality(payments) = 1 /\ Cardinality(loans) = 1
    /\ \A p \in payments : \E l \in loans : p.loan_id = l.id /\ l.id # last.id

\* a paid loan was deleted with its payment
C25_PaidLoanDeleted ==
    /\ last.op = "delete_loan" /\ last.result = "ok"
    /\ next_id.payment = 2 /\ next_id.loan = 2
    /\ payments = {} /\ loans = {}

\* C26: in every reachable state the dashboard's outstanding_principal, the
\* sum of the loans' amounts less the sum of principal_amount over all
\* payments, equals the sum of remaining_balance over the existing loans.
C26_OutstandingIsSumOfBalances ==
    get_dashboard_stats(members, savings, loans, payments, utc_now).outstanding_principal
      = SumOver(loans, [l \in loans |-> remaining_balance(payments, l)])

\* two loans, one paid and one active, each with principal paid on it; the
\* dashboard shows what is still owed on the second
C26_Witness ==
    /\ Cardinality(loans) = 2
    /\ \E l \in loans : l.status = "paid"
    /\ \E l \in loans : l.status = "active" /\ remaining_balance(payments, l) > 0
    /\ \A l \in loans : \E p \in payments : p.loan_id = l.id /\ p.principal_amount > 0
    /\ get_dashboard_stats(members, savings, loans, payments, utc_now).outstanding_principal > 0

\* C27: a register_payment on an unpaid loan whose cash amount is exactly
\* remaining_balance + current_interest_due + accumulated_late_fees is
\* accepted, stores principal_amount equal to the whole remaining balance, and
\* leaves the loan with remaining_balance 0 and status "paid".
C27_ExactClearanceAccepted ==
    [][ last'.op = "register_payment"
          => \A l \in loans :
               (l.id = last'.id /\ l.status # "paid" /\ last'.amount = ClearanceOf(l))
                 => /\ last'.result \in {"ok", "failure"}
                    /\ last'.result = "ok"
                         => /\ \E q \in payments' \ payments :
                                  /\ q.loan_id = l.id
                                  /\ q.principal_amount = remaining_balance(payments, l)
                            /\ \A l2 \in loans' :
                                  l2.id = l.id => /\ remaining_balance(payments', l2) = 0
                                                  /\ l2.status = "paid"
      ]_vars

\* the same for the loans whose remaining balance is not negative
C27_ExactClearanceOfBalanceFromZero ==
    [][ last'.op = "register_payment"
          => \A l \in loans :
               (/\ l.id = last'.id /\ l.status # "paid"
                /\ remaining_balance(payments, l) >= 0
                /\ last'.amount = ClearanceOf(l))
                 => /\ last'.result \in {"ok", "failure"}
                    /\ last'.result = "ok"
                         => /\ \E q \in payments' \ payments :
                                  /\ q.loan_id = l.id
                                  /\ q.principal_amount = remaining_balance(payments, l)
                            /\ \A l2 \in loans' :
                                  l2.id = l.id => /\ remaining_balance(payments', l2) = 0
                                                  /\ l2.status = "paid"
      ]_vars

C29_InterleavedPaymentsWithinAmount ==
    \A l \in loans :
      LET ps == PaymentsOf(payments, l)
      IN  SumOver(ps, [p \in ps |-> p.principal_amount]) <= l.amount

\* the same for the commits of requests that loaded the tables as they still
\* are: a request that is not overtaken stays within the amount
C29_PaymentOnCurrentRowsWithinAmount ==
    [][ \A s \in sessions :
          (s \notin sessions' /\ s.loans = loans /\ s.payments = payments
               /\ C29_InterleavedPaymentsWithinAmount)
            => C29_InterleavedPaymentsWithinAmount'
      ]_vars

\* C30: a refresh token is single-use: once a /refresh with token t has
\* succeeded, t is blocklisted, and no later or interleaved /refresh with
\* the same t succeeds.
C30_RefreshTokenSingleUse ==
    [][ (last'.op = "refresh" /\ last'.result = "ok")
          => \A b \in blocklist : b.token # last'.id ]_vars

\* the part about later requests: a /refresh that arrives when its token is
\* in the blocklist is rejected at once
C30_LaterRefreshRejected ==
    [][ (last'.op = "refresh" /\ sessions \subseteq sessions'
            /\ \E b \in blocklist : b.token = last'.id)
          => (last'.result = "unauthorized" /\ sessions' = sessions
                /\ blocklist' = blocklist) ]_vars

====
